---------------------------- MODULE Spec2Model ----------------------------
(***************************************************************************)
(* Model of energy_optimize_Demo.py: the synthetic telemetry generator     *)
(* (generate_resource_data, cached by st.cache_data), the agent progress   *)
(* loop and the ROI calculator of main().                                  *)
(*                                                                         *)
(* Python floats are modelled as exact rationals [n, d] in lowest terms    *)
(* with d > 0; the formatting of a float (f"{x:,.2f}") is modelled as      *)
(* rounding to the nearest multiple of 10^-p, ties to even.                *)
(*                                                                         *)
(* The three components share no state: the ROI tab reads only its three  *)
(* widgets, the agent loop only the speed slider, the generator nothing.   *)
(* Each specification below explores one component and holds the other     *)
(* two at their initial state: Spec the ROI tab, SpecData the generator    *)
(* and its cache, SpecAgent the agent loop.                                *)
(***************************************************************************)
EXTENDS Integers, Sequences, FiniteSets, TLC

(***************************************************************************)
(* Bounds of the exploration                                               *)
(***************************************************************************)
\* server counts explored: 1..MaxServers and the widget default
MaxServers == 1
\* monthly costs explored: MinCost..MinCost+CostSpan and the widget default
CostSpan == 1

(***************************************************************************)
(* Program constants                                                       *)
(***************************************************************************)
DefaultServers == 50
MinServers == 1
DefaultCost == 15000
MinCost == 100
MinEfficiency == 30
MaxEfficiency == 90
DefaultEfficiency == 65
TargetEfficiency == 85
implementation_cost == 25000
LastMonth == 12

Servers == (MinServers..MaxServers) \cup {DefaultServers}
Costs == (MinCost..(MinCost + CostSpan)) \cup {DefaultCost}
Efficiencies == MinEfficiency..MaxEfficiency

(***************************************************************************)
(* Float arithmetic, as exact rationals                                    *)
(***************************************************************************)
Abs(x) == IF x < 0 THEN -x ELSE x

RECURSIVE GCD(_, _)
GCD(a, b) == IF b = 0 THEN a ELSE GCD(b, a % b)

\* n/d in lowest terms, d > 0
Rat(n, d) ==
    LET s == IF d < 0 THEN -1 ELSE 1
        g == GCD(Abs(n), Abs(d))
    IN  [n |-> (s * n) \div g, d |-> (s * d) \div g]

FromInt(k) == [n |-> k, d |-> 1]
RMul(a, b) == Rat(a.n * b.n, a.d * b.d)
\* a / b, b non-zero
RDiv(a, b) == Rat(a.n * b.d, a.d * b.n)
RLess(a, b) == a.n * b.d < b.n * a.d
RLeq(a, b) == a.n * b.d <= b.n * a.d
Zero == FromInt(0)

RECURSIVE Pow10(_)
Pow10(p) == IF p = 0 THEN 1 ELSE 10 * Pow10(p - 1)

\* format(x, ".<p>f"): x as a whole number of 10^-p, nearest, ties to even
Format(x, p) ==
    LET num == x.n * Pow10(p)
        q == num \div x.d
        rem == num - q * x.d
    IN  IF 2 * rem > x.d THEN q + 1
        ELSE IF 2 * rem < x.d THEN q
        ELSE IF q % 2 = 0 THEN q ELSE q + 1

(***************************************************************************)
(* State                                                                   *)
(***************************************************************************)
VARIABLES
    pc,                   \* position of the script run in the ROI tab
    num_servers,          \* st.number_input "Number of Servers"
    avg_monthly_cost,     \* st.number_input "Average Monthly Cost ($)"
    current_efficiency,   \* st.slider "Current Efficiency (%)"
    optimization_potential,
    monthly_savings,
    annual_savings,
    roi_months,
    cumulative_savings,
    energy_saved,
    carbon_reduced,
    trees_equivalent,
    divided,              \* history: this run executed implementation_cost / monthly_savings
    fault,                \* history: a ZeroDivisionError was raised
    prev_run,             \* history: <<>> or <<inputs and outputs of the previous run>>
    \* --- generate_resource_data and its st.cache_data cache
    dpc,                  \* position of the script run around line 145
    cache,                \* st.cache_data entry of generate_resource_data: <<>> or <<frame>>
    rng,                  \* the stream random.gauss draws from (module random, line 8)
    ndraws,               \* number of random.gauss calls made so far
    hours,                \* local of generate_resource_data
    i,                    \* loop index of generate_resource_data
    data,                 \* local of generate_resource_data
    df,                   \* local of main: <<>> or <<frame>>
    body_runs,            \* history: executions of the body of generate_resource_data
    first_df,             \* history: <<>> or <<frame the first call returned>>
    reruns,               \* history: script reruns of this session
    \* --- the agent analysis of tab 2
    apc,                  \* position of the script run in tab 2
    simulation_speed,     \* st.sidebar.slider "Simulation Speed"
    decisions,            \* local of main
    k,                    \* loop index of the decisions loop
    progress_bar,         \* value of st.progress
    status_text,          \* content of the st.empty placeholder
    success,              \* the st.success box of line 217 is on the page
    emitted,              \* history: every text given to status_text, in order
    progress_log,         \* history: every value given to progress_bar, in order
    slept                 \* history: total time.sleep of this analysis, in 1/2520 s

roi_vars == <<pc, num_servers, avg_monthly_cost, current_efficiency,
              optimization_potential, monthly_savings, annual_savings, roi_months,
              cumulative_savings, energy_saved, carbon_reduced, trees_equivalent,
              divided, fault, prev_run>>

data_vars == <<dpc, cache, rng, ndraws, hours, i, data, df, body_runs, first_df, reruns>>

agent_vars == <<apc, simulation_speed, decisions, k, progress_bar, status_text, success,
                emitted, progress_log, slept>>

vars == <<roi_vars, data_vars, agent_vars>>

inputs == <<num_servers, avg_monthly_cost, current_efficiency>>
outputs == <<optimization_potential, monthly_savings, annual_savings, roi_months,
             cumulative_savings, energy_saved, carbon_reduced, trees_equivalent>>

(***************************************************************************)
(* The ROI calculator tab (main, lines 281-336)                            *)
(***************************************************************************)
\* mutant: the distance from the target, abs(85 - current_efficiency) / 85 * 100
OptimizationPotentialAbs(eff) ==
    RMul(RDiv(FromInt(Abs(TargetEfficiency - eff)), FromInt(TargetEfficiency)), FromInt(100))

\* (85 - current_efficiency) / 85 * 100
OptimizationPotential(eff) ==
    RMul(RDiv(FromInt(TargetEfficiency - eff), FromInt(TargetEfficiency)), FromInt(100))

\* mutant: the percentage is used as a fraction, avg_monthly_cost * optimization_potential * 0.3
MonthlySavingsNoPercent(cost, potential) ==
    RMul(RMul(FromInt(cost), potential), Rat(3, 10))

\* mutant: the monthly cost is taken per server
MonthlySavingsPerServer(cost, potential) ==
    RMul(RMul(FromInt(cost * num_servers), RDiv(potential, FromInt(100))), Rat(3, 10))

\* avg_monthly_cost * (optimization_potential / 100) * 0.3
MonthlySavings(cost, potential) ==
    RMul(RMul(FromInt(cost), RDiv(potential, FromInt(100))), Rat(3, 10))

\* monthly_savings * 12
AnnualSavings(monthly) == RMul(monthly, FromInt(12))

\* mutant: the guard monthly_savings >= 0
SavingsNotNegative(monthly) == RLeq(Zero, monthly)

\* mutant: the guard monthly_savings != 0
SavingsNonZero(monthly) == monthly.n /= 0

\* the guard of the conditional expression: monthly_savings > 0
SavingsPositive(monthly) == RLess(Zero, monthly)

\* [monthly_savings * i for i in range(1, 13)]
CumulativeSavings(monthly) == [m \in 1..LastMonth |-> RMul(monthly, FromInt(m))]

\* annual_savings * 0.8
EnergySaved(annual) == RMul(annual, Rat(8, 10))
\* energy_saved * 0.4
CarbonReduced(energy) == RMul(energy, Rat(4, 10))
\* carbon_reduced / 21
TreesEquivalent(carbon) == RDiv(carbon, FromInt(21))

InitROI ==
    /\ pc = "calc"
    /\ num_servers = DefaultServers
    /\ avg_monthly_cost = DefaultCost
    /\ current_efficiency = DefaultEfficiency
    /\ optimization_potential = Zero
    /\ monthly_savings = Zero
    /\ annual_savings = Zero
    /\ roi_months = Zero
    /\ cumulative_savings = <<>>
    /\ energy_saved = Zero
    /\ carbon_reduced = Zero
    /\ trees_equivalent = Zero
    /\ divided = FALSE
    /\ fault = FALSE
    /\ prev_run = <<>>

\* lines 294-296
CalcSavings ==
    /\ pc = "calc"
    /\ optimization_potential' = OptimizationPotential(current_efficiency)
    /\ monthly_savings' = MonthlySavings(avg_monthly_cost, optimization_potential')
    /\ annual_savings' = AnnualSavings(monthly_savings')
    /\ pc' = "roi"
    /\ UNCHANGED <<inputs, roi_months, cumulative_savings, energy_saved,
                   carbon_reduced, trees_equivalent, divided, fault, prev_run,
                   data_vars, agent_vars>>

\* lines 306-309: implementation_cost / monthly_savings if monthly_savings > 0 else 0
CalcROI ==
    /\ pc = "roi"
    /\ IF SavingsPositive(monthly_savings)
       THEN IF monthly_savings.n = 0
            THEN \* ZeroDivisionError: the script run stops here
                 /\ fault' = TRUE
                 /\ pc' = "crashed"
                 /\ UNCHANGED <<roi_months, divided>>
            ELSE /\ roi_months' = RDiv(FromInt(implementation_cost), monthly_savings)
                 /\ divided' = TRUE
                 /\ pc' = "charts"
                 /\ UNCHANGED fault
       ELSE /\ roi_months' = FromInt(0)
            /\ pc' = "charts"
            /\ UNCHANGED <<divided, fault>>
    /\ UNCHANGED <<inputs, optimization_potential, monthly_savings, annual_savings,
                   cumulative_savings, energy_saved, carbon_reduced, trees_equivalent,
                   prev_run, data_vars, agent_vars>>

\* lines 312-336
CalcCharts ==
    /\ pc = "charts"
    /\ cumulative_savings' = CumulativeSavings(monthly_savings)
    /\ energy_saved' = EnergySaved(annual_savings)
    /\ carbon_reduced' = CarbonReduced(energy_saved')
    /\ trees_equivalent' = TreesEquivalent(carbon_reduced')
    /\ pc' = "done"
    /\ UNCHANGED <<inputs, optimization_potential, monthly_savings, annual_savings,
                   roi_months, divided, fault, prev_run,
                   data_vars, agent_vars>>

\* A widget of the ROI tab changes: the script is run again from the top with
\* the new widget values; what the previous run showed is remembered in prev_run.
Rerun(servers, cost, eff) ==
    /\ pc = "done"
    /\ <<servers, cost, eff>> /= inputs
    /\ num_servers' = servers
    /\ avg_monthly_cost' = cost
    /\ current_efficiency' = eff
    /\ prev_run' = << [num_servers |-> num_servers,
                       avg_monthly_cost |-> avg_monthly_cost,
                       current_efficiency |-> current_efficiency,
                       outputs |-> outputs] >>
    /\ divided' = FALSE
    /\ pc' = "calc"
    /\ UNCHANGED <<outputs, fault, data_vars, agent_vars>>

\* line 289
SetServers == \E s \in Servers : Rerun(s, avg_monthly_cost, current_efficiency)
\* line 290
SetCost == \E c \in Costs : Rerun(num_servers, c, current_efficiency)
\* line 291
SetEfficiency == \E e \in Efficiencies : Rerun(num_servers, avg_monthly_cost, e)

NextROI == CalcSavings \/ CalcROI \/ CalcCharts \/ SetServers \/ SetCost \/ SetEfficiency

(***************************************************************************)
(* generate_resource_data (lines 49-79) and its call in main (line 145)    *)
(*                                                                         *)
(* Percentages are whole numbers of thousandths; energy_cost and           *)
(* carbon_footprint are whole numbers of hundred-thousandths.  np.sin is   *)
(* tabulated to three decimals.  random.gauss(mu, sigma) is mu + sigma*z;  *)
(* random is never seeded by the program, so the stream of z it draws from *)
(* is fixed when the process starts and is unknown: rng is chosen in the   *)
(* initial state.  The streams explored are those in which every draw is   *)
(* at its mean but at most one, which lies MaxZ standard deviations above  *)
(* or below it.                                                            *)
(***************************************************************************)
\* largest |z| of a draw, in standard deviations
MaxZ == 8
\* widget interactions (script reruns) explored in one session
MaxReruns == 2

\* pd.date_range(start='2025-01-01', periods=168, freq='H')
NumSamples == 168
StartYear == 2025
StartMonth == 1
StartDay == 1
HoursPerDay == 24
\* random.gauss calls of one loop iteration
GaussCalls == 8
UsageCap == 95

\* 1000 * sin(2 * pi * h / 24), h = 0..23
SinTable ==
    << 0, 259, 500, 707, 866, 966, 1000, 966, 866, 707, 500, 259,
       0, -259, -500, -707, -866, -966, -1000, -966, -866, -707, -500, -259 >>
\* 1000 * np.sin(2 * np.pi * idx / 24)
Sin(idx) == SinTable[(idx % HoursPerDay) + 1]

Max(a, b) == IF a >= b THEN a ELSE b
Min(a, b) == IF a <= b THEN a ELSE b

Streams ==
    {[pos |-> 0, z |-> 0]} \cup
    [pos : 1..(GaussCalls * NumSamples), z : {-MaxZ, MaxZ}]

\* the n-th draw of the stream, in standard deviations
Draw(n) == IF n = rng.pos THEN rng.z ELSE 0
\* random.gauss(mu, sigma) as the n-th draw, in thousandths
Gauss(mu, sigma, n) == 1000 * (mu + sigma * Draw(n))

\* the j-th timestamp (j = 1..periods) of the hourly range from 2025-01-01 00:00
Timestamp(j) ==
    [year |-> StartYear, month |-> StartMonth,
     day |-> StartDay + (j - 1) \div HoursPerDay, hour |-> (j - 1) % HoursPerDay]
\* mutant: one period too few
DateRangeShort == [j \in 1..(NumSamples - 1) |-> Timestamp(j)]

\* line 53
DateRange == [j \in 1..NumSamples |-> Timestamp(j)]

\* cpu_usage of line 69
CpuUsage(base_cpu, noise) == Min(1000 * UsageCap, base_cpu + noise)
\* memory_usage of line 70
MemoryUsage(base_memory, noise) == Min(1000 * UsageCap, base_memory + noise)
\* gpu_usage of line 71
GpuUsage(base_gpu) == Min(1000 * UsageCap, base_gpu)

\* lines 58-77: the dict appended for index idx and timestamp hour, the
\* random.gauss calls being draws n+1 .. n+8 in the order Python makes them
Sample(idx, hour, n) ==
    LET base_cpu == 45000 + 20 * Sin(idx)
        base_memory == 60000 + 15 * Sin(idx)
        base_gpu == Max(0, 30000 + 40 * Sin(idx) + Gauss(0, 10, n + 1))
        cpu_waste == Max(0, Gauss(15, 5, n + 2))
        memory_waste == Max(0, Gauss(10, 5, n + 3))
        gpu_waste == Max(0, Gauss(20, 8, n + 4))
        total == base_cpu + base_memory + base_gpu
    IN  [timestamp |-> hour,
         cpu_usage |-> CpuUsage(base_cpu, Gauss(0, 5, n + 5)),
         memory_usage |-> MemoryUsage(base_memory, Gauss(0, 5, n + 6)),
         gpu_usage |-> GpuUsage(base_gpu),
         cpu_waste |-> cpu_waste,
         memory_waste |-> memory_waste,
         gpu_waste |-> gpu_waste,
         energy_cost |-> total * 12 + 100 * Gauss(0, 2, n + 7),
         carbon_footprint |-> total * 5 + 100 * Gauss(0, 1, n + 8)]

\* mutant: the function is not cached, every call misses
CacheLookupMiss(c) == <<>>

\* st.cache_data: the entry found for the call generate_resource_data()
CacheLookup(c) == c

InitData ==
    /\ dpc = "load"
    /\ cache = <<>>
    /\ rng \in Streams
    /\ ndraws = 0
    /\ hours = <<>>
    /\ i = 0
    /\ data = <<>>
    /\ df = <<>>
    /\ body_runs = 0
    /\ first_df = <<>>
    /\ reruns = 0

\* the first value a call returned
FirstReturned(frame) == IF first_df = <<>> THEN <<frame>> ELSE first_df

\* line 145, the cache holds the result: the body is skipped
CacheHit ==
    /\ dpc = "load"
    /\ CacheLookup(cache) /= <<>>
    /\ df' = CacheLookup(cache)
    /\ first_df' = FirstReturned(CacheLookup(cache)[1])
    /\ dpc' = "render"
    /\ UNCHANGED <<cache, rng, ndraws, hours, i, data, body_runs, reruns,
                   roi_vars, agent_vars>>

\* line 145, nothing cached: the body starts (lines 52-55)
CacheMiss ==
    /\ dpc = "load"
    /\ CacheLookup(cache) = <<>>
    /\ hours' = DateRange
    /\ data' = <<>>
    /\ i' = 0
    /\ body_runs' = body_runs + 1
    /\ dpc' = "loop"
    /\ UNCHANGED <<cache, rng, ndraws, df, first_df, reruns, roi_vars, agent_vars>>

\* one iteration of the loop of lines 56-77
GenSample ==
    /\ dpc = "loop"
    /\ i < Len(hours)
    /\ data' = Append(data, Sample(i, hours[i + 1], ndraws))
    /\ ndraws' = ndraws + GaussCalls
    /\ i' = i + 1
    /\ UNCHANGED <<dpc, cache, rng, hours, df, body_runs, first_df, reruns,
                   roi_vars, agent_vars>>

\* line 79: the frame is returned, stored in the cache and bound to df
GenReturn ==
    /\ dpc = "loop"
    /\ i = Len(hours)
    /\ cache' = <<data>>
    /\ df' = <<data>>
    /\ first_df' = FirstReturned(data)
    /\ dpc' = "render"
    /\ UNCHANGED <<rng, ndraws, hours, i, data, body_runs, reruns, roi_vars, agent_vars>>

\* a widget interaction reruns the script: main's locals are gone, the cache stays
Interact ==
    /\ dpc = "render"
    /\ reruns < MaxReruns
    /\ reruns' = reruns + 1
    /\ df' = <<>>
    /\ dpc' = "load"
    /\ UNCHANGED <<cache, rng, ndraws, hours, i, data, body_runs, first_df,
                   roi_vars, agent_vars>>

NextData == CacheHit \/ CacheMiss \/ GenSample \/ GenReturn \/ Interact

\* the generator as the other components leave it: not yet called
IdleData == InitData /\ rng.pos = 0

(***************************************************************************)
(* The agent analysis of tab 2 (ai_agent_simulation, lines 115-126, and    *)
(* main, lines 138 and 206-217)                                            *)
(***************************************************************************)
MinSpeed == 1
MaxSpeed == 10
DefaultSpeed == 5
\* one second in the unit of slept: the least common multiple of 1..10
Second == 2520

\* lines 117-126
ai_agent_simulation ==
    << "Analyzing resource utilization patterns...",
       "Detecting idle GPU resources (ID: gpu-cluster-a)",
       "Energy waste detected: 450kWh/month",
       "Recommendation: Implement auto-hibernation schedule",
       "Calculating optimal scaling parameters...",
       "Action approved: Scheduling hibernation for 22:00-06:00",
       "Projected savings: $450/month, 35% energy reduction" >>

\* mutant: i / len(decisions)
ProgressFromIndex(idx, len) == Rat(idx, len)

\* (i + 1) / len(decisions) of line 214, idx the 0-based loop index
Progress(idx, len) == Rat(idx + 1, len)

\* 1 / simulation_speed of line 215
SleepTime(speed) == Second \div speed

InitAgent ==
    /\ apc = "idle"
    /\ simulation_speed = DefaultSpeed
    /\ decisions = <<>>
    /\ k = 0
    /\ progress_bar = Zero
    /\ status_text = ""
    /\ success = FALSE
    /\ emitted = <<>>
    /\ progress_log = <<>>
    /\ slept = 0

\* line 138: the slider is moved; the script reruns and the page is redrawn
SetSpeed ==
    /\ apc \in {"idle", "shown"}
    /\ \E s \in MinSpeed..MaxSpeed :
          /\ s /= simulation_speed
          /\ simulation_speed' = s
    /\ apc' = "idle"
    /\ success' = FALSE
    /\ UNCHANGED <<decisions, k, progress_bar, status_text, emitted, progress_log,
                   slept, roi_vars, data_vars>>

\* lines 206-210: the button is pressed
StartAnalysis ==
    /\ apc \in {"idle", "shown"}
    /\ progress_bar' = Zero
    /\ status_text' = ""
    /\ decisions' = ai_agent_simulation
    /\ k' = 0
    /\ success' = FALSE
    /\ emitted' = <<>>
    /\ progress_log' = <<>>
    /\ slept' = 0
    /\ apc' = "loop"
    /\ UNCHANGED <<simulation_speed, roi_vars, data_vars>>

\* lines 212-214: the next decision is shown and the bar advanced
ShowDecision ==
    /\ apc = "loop"
    /\ k < Len(decisions)
    /\ status_text' = decisions[k + 1]
    /\ progress_bar' = Progress(k, Len(decisions))
    /\ emitted' = Append(emitted, status_text')
    /\ progress_log' = Append(progress_log, progress_bar')
    /\ apc' = "sleep"
    /\ UNCHANGED <<simulation_speed, decisions, k, success, slept, roi_vars, data_vars>>

\* line 215: time.sleep(1 / simulation_speed) returns
Sleep ==
    /\ apc = "sleep"
    /\ slept' = slept + SleepTime(simulation_speed)
    /\ k' = k + 1
    /\ apc' = "loop"
    /\ UNCHANGED <<simulation_speed, decisions, progress_bar, status_text, success,
                   emitted, progress_log, roi_vars, data_vars>>

\* line 217, after the loop
Complete ==
    /\ apc = "loop"
    /\ k = Len(decisions)
    /\ success' = TRUE
    /\ apc' = "shown"
    /\ UNCHANGED <<simulation_speed, decisions, k, progress_bar, status_text,
                   emitted, progress_log, slept, roi_vars, data_vars>>

NextAgent == SetSpeed \/ StartAnalysis \/ ShowDecision \/ Sleep \/ Complete

(***************************************************************************)
(* Specifications                                                          *)
(***************************************************************************)
\* the state when the script first runs
Init == InitROI /\ InitData /\ InitAgent

\* the same, the generator drawing every value at its mean
InitQuiet == Init /\ rng.pos = 0

\* the ROI tab
Spec == InitQuiet /\ [][NextROI]_vars

\* the generator and its cache
SpecData == Init /\ [][NextData]_vars

\* the agent analysis; a started script run is not abandoned: the loop steps
\* are taken as long as they are enabled
SpecAgent ==
    /\ InitQuiet
    /\ [][NextAgent]_vars
    /\ WF_vars(ShowDecision \/ Sleep \/ Complete)

(***************************************************************************)
(* Claims about the ROI tab, checked under Spec                            *)
(***************************************************************************)
\* the previous run, when there is one
Prev == prev_run[1]
PrevMonthly == Prev.outputs[2]
ROIShown == pc = "done"

\* a float that is an ordinary number, an infinity (n/0) or a NaN (0/0)
IsFloat(x) == x \in [n : Int, d : Nat]

\* C2: run with current_efficiency = 85, the calculator gives monthly_savings = 0
\* and a roi_months that is a "not applicable" sentinel: not an ordinary number
\* of months, not infinity, not NaN.
C2_SentinelAtCap ==
    (ROIShown /\ current_efficiency = TargetEfficiency) =>
        (monthly_savings = Zero /\ ~IsFloat(roi_months))

\* C3: implementation_cost / monthly_savings is executed only when monthly_savings
\* is non-zero, and no run of the calculator raises a division by zero.
C3_NoDivisionByZero ==
    /\ ~fault
    /\ pc /= "crashed"
    /\ divided => monthly_savings.n /= 0

\* C3 witness: at efficiency 85 the ROI step has run and skipped the division
C3_Witness ==
    /\ pc = "charts"
    /\ current_efficiency = TargetEfficiency
    /\ monthly_savings = Zero
    /\ ~divided

\* C4: for a fixed avg_monthly_cost, of two runs the one with the lower (or equal)
\* efficiency has the greater or equal monthly_savings.
C4_Monotonic ==
    (ROIShown /\ prev_run /= <<>> /\ Prev.avg_monthly_cost = avg_monthly_cost) =>
        /\ Prev.current_efficiency <= current_efficiency => RLeq(monthly_savings, PrevMonthly)
        /\ current_efficiency <= Prev.current_efficiency => RLeq(PrevMonthly, monthly_savings)

\* C4 witness: two runs at the same cost, the later at a higher efficiency and
\* with strictly smaller savings
C4_Witness ==
    /\ ROIShown
    /\ prev_run /= <<>>
    /\ Prev.avg_monthly_cost = avg_monthly_cost
    /\ Prev.current_efficiency < current_efficiency
    /\ RLess(monthly_savings, PrevMonthly)

\* C6: optimization_potential = (85 - e) / 85 * 100, monthly_savings =
\* cost * (potential / 100) * 0.30, annual_savings = monthly_savings * 12; the
\* inputs (50, 15000, 65) give 23.53 %, 1058.82 and 12705.88 to two decimals.
C6_Formulas ==
    ROIShown =>
        LET gap == TargetEfficiency - current_efficiency
        IN  /\ RMul(optimization_potential, FromInt(85)) = FromInt(100 * gap)
            /\ RMul(monthly_savings, FromInt(850)) = FromInt(3 * avg_monthly_cost * gap)
            /\ RMul(annual_savings, FromInt(850)) = FromInt(36 * avg_monthly_cost * gap)
            /\ inputs = <<50, 15000, 65>> =>
                  /\ Format(optimization_potential, 2) = 2353
                  /\ Format(monthly_savings, 2) = 105882
                  /\ Format(annual_savings, 2) = 1270588

\* C6 witness: the calculator has run on (50, 15000, 65)
C6_Witness == ROIShown /\ inputs = <<50, 15000, 65>> /\ Format(monthly_savings, 2) = 105882

\* C9: above 85 (86..90) monthly_savings, annual_savings and every
\* cumulative_savings[m] are strictly negative and roi_months is 0, as it is at
\* 85; roi_months is strictly positive exactly when current_efficiency < 85.
C9_AboveCap ==
    ROIShown =>
        /\ current_efficiency > TargetEfficiency =>
              /\ RLess(monthly_savings, Zero)
              /\ RLess(annual_savings, Zero)
              /\ \A m \in 1..12 : RLess(cumulative_savings[m], Zero)
              /\ roi_months = Zero
        /\ current_efficiency = TargetEfficiency => roi_months = Zero
        /\ RLess(Zero, roi_months) <=> current_efficiency < TargetEfficiency

\* C9 witness: the calculator has run at an efficiency above 85
C9_Witness ==
    /\ ROIShown
    /\ current_efficiency = 88
    /\ RLess(cumulative_savings[12], Zero)
    /\ roi_months = Zero

\* C10: two runs that agree on avg_monthly_cost and current_efficiency and differ
\* in num_servers give the same eight outputs.
C10_ServersIgnored ==
    (/\ ROIShown
     /\ prev_run /= <<>>
     /\ Prev.avg_monthly_cost = avg_monthly_cost
     /\ Prev.current_efficiency = current_efficiency
     /\ Prev.num_servers /= num_servers) => Prev.outputs = outputs

\* C10 witness: a run after a change of the server count alone
C10_Witness ==
    /\ ROIShown
    /\ prev_run /= <<>>
    /\ Prev.avg_monthly_cost = avg_monthly_cost
    /\ Prev.current_efficiency = current_efficiency
    /\ Prev.num_servers /= num_servers
    /\ RLess(Zero, monthly_savings)

(***************************************************************************)
(* Claims about the generator, checked under SpecData                      *)
(***************************************************************************)
InPercentRange(x) == 0 <= x /\ x <= 1000 * UsageCap

\* C1: every generated sample has cpu_usage, memory_usage and gpu_usage >= 0
\* and <= 95, whatever the noise terms are.
C1_UsageInRange ==
    \A j \in 1..Len(data) :
        /\ InPercentRange(data[j].cpu_usage)
        /\ InPercentRange(data[j].memory_usage)
        /\ InPercentRange(data[j].gpu_usage)

\* hours from 2025-01-01 00:00 to a timestamp of January 2025
HoursSinceStart(t) == (t.day - 1) * 24 + t.hour
IsJanuary2025(t) ==
    /\ t.year = 2025 /\ t.month = 1
    /\ t.day \in 1..31 /\ t.hour \in 0..23

\* C5: generate_resource_data returns exactly 168 samples, in generation order,
\* whose timestamps start at 2025-01-01 00:00 and are one hour apart: sample
\* number j (from 0) is stamped start + j hours.
C5_HourlyTimestamps ==
    /\ dpc = "loop" => Len(data) = i
    /\ df /= <<>> =>
          LET frame == df[1]
          IN  /\ Len(frame) = 168
              /\ frame[1].timestamp = [year |-> 2025, month |-> 1, day |-> 1, hour |-> 0]
              /\ \A j \in 1..Len(frame) :
                    /\ IsJanuary2025(frame[j].timestamp)
                    /\ HoursSinceStart(frame[j].timestamp) = j - 1
              /\ \A j \in 1..(Len(frame) - 1) :
                    HoursSinceStart(frame[j + 1].timestamp)
                        = HoursSinceStart(frame[j].timestamp) + 1

\* C5 witness: a returned frame whose last sample is stamped 2025-01-07 23:00
C5_Witness ==
    /\ df /= <<>>
    /\ Len(df[1]) = 168
    /\ df[1][168].timestamp = [year |-> 2025, month |-> 1, day |-> 7, hour |-> 23]

\* C7: in one session the body of generate_resource_data runs at most once,
\* every call returns the frame the first call returned, and no rerun changes
\* the cached frame.
C7_GeneratedOnce ==
    /\ body_runs <= 1
    /\ df /= <<>> => df = first_df
    /\ cache /= <<>> => cache = first_df

\* C7 witness: a later run of the script got its frame from the cache
C7_Witness ==
    /\ reruns >= 1
    /\ dpc = "render"
    /\ df /= <<>>
    /\ df = first_df
    /\ body_runs = 1
    /\ rng.pos /= 0

(***************************************************************************)
(* Claims about the agent analysis, checked under SpecAgent                *)
(***************************************************************************)
C8_Safety ==
    /\ emitted = SubSeq(ai_agent_simulation, 1, Len(emitted))
    /\ Len(progress_log) = Len(emitted)
    /\ \A j \in 1..Len(progress_log) : progress_log[j] = [n |-> j, d |-> 7]
                                           \/ (j = 7 /\ progress_log[j] = FromInt(1))
    /\ \A j \in 1..(Len(progress_log) - 1) : RLess(progress_log[j], progress_log[j + 1])
    /\ emitted /= <<>> =>
          /\ status_text = emitted[Len(emitted)]
          /\ progress_bar = progress_log[Len(progress_log)]
    /\ success => (Len(emitted) = 7 /\ progress_bar = FromInt(1))

\* C8: once the button is pressed the seven status strings are shown one at a
\* time in list order, the progress after the j-th is j/7 (strictly increasing,
\* exactly 1 after the last), "Analysis complete" is shown only after all seven,
\* and for every speed 1..10 the sequence terminates.
C8_AgentAnalysis ==
    /\ []C8_Safety
    /\ [][Len(emitted') <= Len(emitted) + 1]_vars
    /\ \A s \in 1..10 : (apc = "loop" /\ simulation_speed = s) ~> success

\* C8 witness: an analysis at the highest speed has completed
C8_Witness ==
    /\ success
    /\ simulation_speed = 10
    /\ Len(emitted) = 7
    /\ slept = 7 * 252

=============================================================================
